---------------------------- MODULE Spec2Model ----------------------------
(***************************************************************************)
(* Model of index.js of the Peplink IC2 warranty checker: one run of       *)
(* main(), from the token exchange to the report email.                    *)
(*                                                                         *)
(* Strings that the code inspects or prints character by character (org    *)
(* names, serials, expiry literals, CSV lines) are sequences of one-        *)
(* character strings.  Instants count from the Unix epoch in ticks of one   *)
(* second (JavaScript counts milliseconds; every comparison and the ceil   *)
(* of diffInDays are the same at either resolution, and second ticks keep  *)
(* the instants inside TLC's integers).                                    *)
(*                                                                         *)
(* The simulated API answers within the documented response shapes: a      *)
(* response is non-2xx, or 2xx with a body that does not parse, or 2xx     *)
(* with a JSON object whose data member is absent or is an array of        *)
(* objects with string members.                                            *)
(***************************************************************************)
EXTENDS Integers, Sequences, FiniteSets, TLC

(***************************************************************************)
(* Bounds of the model.                                                    *)
(***************************************************************************)
\* organizations returned by GET /rest/o
MaxOrgs == 2
\* devices returned during one run, over all organizations
MaxDevices == 2
\* length of the serials fed to the normalization on its own
MaxSerialLen == 3
\* whole days between expiry and now fed to diffInDays on its own
MaxDayOffset == 10

(***************************************************************************)
(* Characters.                                                             *)
(***************************************************************************)
Upper == {"A","B","C","D","E","F","G","H","I","J","K","L","M",
          "N","O","P","Q","R","S","T","U","V","W","X","Y","Z"}
Lower == {"a","b","c","d","e","f","g","h","i","j","k","l","m",
          "n","o","p","q","r","s","t","u","v","w","x","y","z"}
Digit == {"0","1","2","3","4","5","6","7","8","9"}

\* the character class [a-zA-Z0-9] of the regular expression
IsAlnum(c) == c \in Upper \cup Lower \cup Digit

LF == "\n"
QUOTE == "\""

SeqsUpTo(S, n) == UNION {[1..k -> S] : k \in 0..n}

(***************************************************************************)
(* Serial normalization: device.sn.replace(/[^a-zA-Z0-9]/g, '').  The      *)
(* global replace scans the string left to right and drops each match.     *)
(***************************************************************************)
\* a replace that removes the hyphens only
RECURSIVE StripHyphens(_)
StripHyphens(s) ==
  IF s = << >> THEN << >>
  ELSE IF Head(s) = "-" THEN StripHyphens(Tail(s))
       ELSE <<Head(s)>> \o StripHyphens(Tail(s))

RECURSIVE NormalizeSerial(_)
NormalizeSerial(s) ==
  IF s = << >> THEN << >>
  ELSE IF IsAlnum(Head(s)) THEN <<Head(s)>> \o NormalizeSerial(Tail(s))
       ELSE NormalizeSerial(Tail(s))

(***************************************************************************)
(* Dates.  new Date(literal) of a date-only ISO literal YYYY-MM-DD is UTC   *)
(* midnight of that day (ECMAScript's Date.parse); any other text of the   *)
(* model's inputs is an Invalid Date, whose time value is NaN.             *)
(***************************************************************************)
TicksInDay == 24 * 60 * 60

DigitVal(c) ==
  CASE c = "0" -> 0 [] c = "1" -> 1 [] c = "2" -> 2 [] c = "3" -> 3
    [] c = "4" -> 4 [] c = "5" -> 5 [] c = "6" -> 6 [] c = "7" -> 7
    [] c = "8" -> 8 [] c = "9" -> 9

IsLeap(y) == (y % 4 = 0 /\ y % 100 # 0) \/ y % 400 = 0

DaysInMonth(y, m) ==
  IF m = 2 THEN (IF IsLeap(y) THEN 29 ELSE 28)
  ELSE IF m \in {4, 6, 9, 11} THEN 30 ELSE 31

\* days from 1970-01-01 to the civil date y-m-d
DaysFromCivil(y, m, d) ==
  LET yy  == IF m <= 2 THEN y - 1 ELSE y
      era == yy \div 400
      yoe == yy - era * 400
      mp  == (m + 9) % 12
      doy == (153 * mp + 2) \div 5 + d - 1
      doe == yoe * 365 + yoe \div 4 - yoe \div 100 + doy
  IN  era * 146097 + doe - 719468

InvalidDate == [valid |-> FALSE, t |-> 0]

ParseDate(s) ==
  IF /\ Len(s) = 10
     /\ s[5] = "-" /\ s[8] = "-"
     /\ \A i \in {1, 2, 3, 4, 6, 7, 9, 10} : s[i] \in Digit
  THEN LET y == DigitVal(s[1]) * 1000 + DigitVal(s[2]) * 100
                + DigitVal(s[3]) * 10 + DigitVal(s[4])
           m == DigitVal(s[6]) * 10 + DigitVal(s[7])
           d == DigitVal(s[9]) * 10 + DigitVal(s[10])
       IN  IF m \in 1..12 /\ d \in 1..DaysInMonth(y, m)
           THEN [valid |-> TRUE, t |-> DaysFromCivil(y, m, d) * TicksInDay]
           ELSE InvalidDate
  ELSE InvalidDate

\* date1 < date2
DateLt(d1, d2) == d1.valid /\ d2.valid /\ d1.t < d2.t

\* date1 <= date2 on Date objects: false as soon as one time value is NaN
DateLte(d1, d2) == d1.valid /\ d2.valid /\ d1.t <= d2.t

\* Math.ceil / Math.floor of a quotient with a positive divisor
CeilDiv(a, b) == -((-a) \div b)
FloorDiv(a, b) == a \div b

\* diffInDays with Math.floor in place of Math.ceil
diffInDaysFloor(date1, date2) == FloorDiv(date1 - date2, TicksInDay)

\* diffInDays(date1, date2), on the time values of two valid dates
diffInDays(date1, date2) == CeilDiv(date1 - date2, TicksInDay)

\* the 90 of "90 days from now"
HorizonDays == 90

\* cutoffDate = new Date(now.getTime() + 90 * 24 * 60 * 60 * 1000)
cutoffDate(now) == [valid |-> TRUE, t |-> now + HorizonDays * TicksInDay]

(***************************************************************************)
(* Text.                                                                   *)
(***************************************************************************)
RECURSIVE NatToStr(_)
NatToStr(n) ==
  LET d == <<"0","1","2","3","4","5","6","7","8","9">>[(n % 10) + 1]
  IN  IF n < 10 THEN <<d>> ELSE NatToStr(n \div 10) \o <<d>>

\* `${daysLeft}`: the decimal text of an integer (-0 prints as 0)
IntToStr(n) == IF n < 0 THEN <<"-">> \o NatToStr(-n) ELSE NatToStr(n)

\* lines.join(): the separator left to its default, a comma
RECURSIVE JoinDefault(_, _)
JoinDefault(lines, sep) ==
  IF lines = << >> THEN << >>
  ELSE IF Len(lines) = 1 THEN lines[1]
       ELSE lines[1] \o <<",">> \o JoinDefault(Tail(lines), sep)

\* lines.join(sep)
RECURSIVE Join(_, _)
Join(lines, sep) ==
  IF lines = << >> THEN << >>
  ELSE IF Len(lines) = 1 THEN lines[1]
       ELSE lines[1] \o <<sep>> \o Join(Tail(lines), sep)

Header ==
  <<"o","r","g","_","n","a","m","e",",",
    "s","e","r","i","a","l","_","n","u","m","b","e","r",",",
    "w","a","r","r","a","n","t","y","_","e","x","p","i","r","y","_","d","a","t","e",",",
    "d","a","y","s","_","u","n","t","i","l","_","e","x","p","i","r","y",",",
    "i","s","_","e","x","p","i","r","e","d">>

Quoted(s) == <<QUOTE>> \o s \o <<QUOTE>>

\* `"${orgName}","${serial}","${device.expiry_date}","${daysLeft}","${isExpired}"`
CsvRow(orgName, serial, expiryLit, daysLeft, isExpired) ==
  Quoted(orgName) \o <<",">> \o Quoted(serial) \o <<",">> \o Quoted(expiryLit)
    \o <<",">> \o Quoted(IntToStr(daysLeft)) \o <<",">> \o Quoted(isExpired)

(***************************************************************************)
(* Inputs of a run.                                                        *)
(***************************************************************************)
PeplinkKeys == {"PEPLINK_CLIENT_ID", "PEPLINK_CLIENT_SECRET"}
SmtpKeys == {"SMTP_HOST", "SMTP_PORT", "SMTP_USER", "SMTP_PASS", "SMTP_TO"}
RequiredKeys == PeplinkKeys \cup SmtpKeys

\* process.env as the set of required keys that have a non-empty value
Envs == SUBSET RequiredKeys

\* the name of the organization at position i of the list; the first name
\* of a list may hold a line feed (lf = 1) or none does (lf = 0)
OrgName(i, lf) == IF i = lf THEN <<"N", LF, "Y">> ELSE <<"O","r","g">> \o NatToStr(i)

\* 2025-01-01T00:00:00Z
Epoch2025 == DaysFromCivil(2025, 1, 1) * TicksInDay

\* new Date() at line 114: the midnight above or the tick before it
NowSet == {Epoch2025 - 1, Epoch2025}

Dev(sn, expiry, expired) == [sn |-> sn, expiry_date |-> expiry, expired |-> expired]

\* expiring in 45 days, with a serial to clean
DeviceB == Dev(<<"A","B","-","1","2"," ","3","4">>, <<"2","0","2","5","-","0","2","-","1","5">>, FALSE)

\* the devices the API may return: DeviceB; one expiring 90 days after
\* Epoch2025 and flagged expired; one expired 10 days before it and not
\* flagged; one without serial; one without expiry date; one whose expiry
\* date does not parse
DeviceCatalog ==
  { DeviceB,
    Dev(<<"X","1">>, <<"2","0","2","5","-","0","4","-","0","1">>, TRUE),
    Dev(<<"Q","-","7">>, <<"2","0","2","4","-","1","2","-","2","2">>, FALSE),
    Dev(<< >>, <<"2","0","2","5","-","0","2","-","1","5">>, FALSE),
    Dev(<<"Z","9">>, << >>, TRUE),
    Dev(<<"Z","9">>, <<"n","/","a">>, TRUE) }

NoBody == [parses |-> FALSE, hasData |-> FALSE, data |-> << >>]
Response(status, body) == [status |-> status, body |-> body]
\* response.ok
Ok(r) == r.status \in 200..299

TokenResponses ==
  { [status |-> 401, body |-> "garbage"], [status |-> 200, body |-> "garbage"],
    [status |-> 200, body |-> "noToken"], [status |-> 200, body |-> "token"] }

OrgLists ==
  UNION { { [i \in 1..k |-> [id |-> i, name |-> OrgName(i, lf)]] : lf \in 0..(IF k = 0 THEN 0 ELSE 1) }
          : k \in 0..MaxOrgs }

OrgResponses ==
  { Response(500, NoBody), Response(200, NoBody),
    Response(500, [parses |-> TRUE, hasData |-> FALSE, data |-> << >>]),
    Response(200, [parses |-> TRUE, hasData |-> FALSE, data |-> << >>]) }
  \cup { Response(200, [parses |-> TRUE, hasData |-> TRUE, data |-> l]) : l \in OrgLists }

DevResponses(devs, room) ==
  { Response(500, NoBody), Response(200, NoBody),
    Response(200, [parses |-> TRUE, hasData |-> FALSE, data |-> << >>]) }
  \cup { Response(200, [parses |-> TRUE, hasData |-> TRUE, data |-> l])
         : l \in SeqsUpTo(devs, room) }

(***************************************************************************)
(* State.                                                                  *)
(***************************************************************************)
VARIABLES
  env,        \* process.env: the keys that are set
  catalog,    \* the devices the API holds
  pc,         \* where main() is: "start", "orgs", "devices", "send", "exit"
  exitCode,   \* the exit code of the process once pc = "exit"
  calls,      \* the network calls made so far, in order
  errors,     \* the console.error lines so far, in order
  tokenResp,  \* the response of the token endpoint
  orgResp,    \* the response of GET /rest/o
  orgs,       \* orgs = orgData.data
  idx,        \* position of the for-of loop over orgs
  now,        \* now.getTime()
  csvLines,   \* csvLines
  rowSrc,     \* for each pushed row, <<organization position, device position>>
  fetched,    \* the device response of each organization processed so far
  mail,       \* what sendEmailWithCSV was called with
  fn,         \* the function applied in the runs of a function on its own
  input,      \* its argument
  output      \* its result

vars == <<env, catalog, pc, exitCode, calls, errors, tokenResp, orgResp, orgs, idx, now,
          csvLines, rowSrc, fetched, mail, fn, input, output>>

pureVars == <<fn, input, output>>

NoResponse == Response(0, NoBody)
Call(op, org) == [op |-> op, org |-> org]
Err(msg, org) == [msg |-> msg, org |-> org]

\* A run starts with a complete configuration against the whole device
\* catalog, or with any configuration against an API that holds DeviceB.
Init ==
  /\ \/ env = RequiredKeys /\ catalog = DeviceCatalog
     \/ env \in Envs /\ catalog = {DeviceB}
  /\ pc = "start"
  /\ exitCode = 0
  /\ calls = << >>
  /\ errors = << >>
  /\ tokenResp = [status |-> 0, body |-> "garbage"]
  /\ orgResp = NoResponse
  /\ orgs = << >>
  /\ idx = 0
  /\ now = 0
  /\ csvLines = << >>
  /\ rowSrc = << >>
  /\ fetched = << >>
  /\ mail = [handed |-> FALSE, csvContent |-> << >>, outcome |-> "none"]
  /\ fn = "none"
  /\ input = << >>
  /\ output = << >>

\* process.exit(code), or the end of main() with nothing left to run (code 0)
Exit(code) == pc' = "exit" /\ exitCode' = code

(***************************************************************************)
(* main(), step 1: getBearerToken() and its catch.                         *)
(***************************************************************************)
\* a test of PEPLINK_CLIENT_ID alone
PeplinkIdOnlyMissing(e) == "PEPLINK_CLIENT_ID" \notin e

\* !PEPLINK_CLIENT_ID || !PEPLINK_CLIENT_SECRET
PeplinkConfigMissing(e) == ~(PeplinkKeys \subseteq e)

\* a token taken from any 2xx response
TokenAcceptedOnStatus(r) == Ok(r)

\* getBearerToken returns: 2xx, a body that parses and holds access_token
TokenAccepted(r) == Ok(r) /\ r.body = "token"

GetToken ==
  /\ pc = "start"
  /\ IF PeplinkConfigMissing(env)
     THEN /\ errors' = Append(errors, Err("Error retrieving token:", 0))
          /\ Exit(1)
          /\ UNCHANGED <<calls, tokenResp>>
     ELSE \E r \in TokenResponses :
            /\ calls' = Append(calls, Call("token", 0))
            /\ tokenResp' = r
            /\ IF TokenAccepted(r)
               THEN pc' = "orgs" /\ UNCHANGED <<exitCode, errors>>
               ELSE /\ errors' = Append(errors, Err("Error retrieving token:", 0))
                    /\ Exit(1)
  /\ UNCHANGED <<env, catalog, orgResp, orgs, idx, now, csvLines, rowSrc, fetched, mail, pureVars>>

(***************************************************************************)
(* main(), step 2: the organization fetch, the empty-list return, and the  *)
(* preparation of csvLines, now and cutoffDate.                            *)
(***************************************************************************)
\* the for-of loop over orgs: the body runs for position i, or the loop is over
LoopPc(i, n) == IF i > n THEN "send" ELSE "devices"

\* a try block without the test of orgResponse.ok
OrgFetchFailedOnParse(r) == ~r.body.parses

\* the try block of step 2 throws: non-2xx, or JSON.parse fails
OrgFetchFailed(r) == ~Ok(r) \/ ~r.body.parses

\* a test without orgs.length === 0
NoOrgsWhenMissing(r) == ~r.body.hasData

\* !Array.isArray(orgs) || orgs.length === 0
NoOrgs(r) == ~r.body.hasData \/ Len(r.body.data) = 0

FetchOrgs ==
  /\ pc = "orgs"
  /\ \E r \in OrgResponses :
       /\ calls' = Append(calls, Call("orgs", 0))
       /\ orgResp' = r
       /\ IF OrgFetchFailed(r)
          THEN /\ errors' = Append(errors, Err("Error fetching organizations:", 0))
               /\ Exit(1)
               /\ UNCHANGED <<orgs, idx, now, csvLines>>
          ELSE IF NoOrgs(r)
          THEN /\ Exit(0)
               /\ UNCHANGED <<errors, orgs, idx, now, csvLines>>
          ELSE /\ orgs' = r.body.data
               /\ csvLines' = <<Header>>
               /\ now' \in NowSet
               /\ idx' = 1
               /\ pc' = LoopPc(1, Len(r.body.data))
               /\ UNCHANGED <<errors, exitCode>>
  /\ UNCHANGED <<env, catalog, tokenResp, rowSrc, fetched, mail, pureVars>>

(***************************************************************************)
(* main(), steps 3 and 4: one iteration of the loop over orgs.             *)
(***************************************************************************)
\* the inner loop over devices: the rows pushed, each with its device position
RECURSIVE SelectRows(_, _, _, _)
SelectRows(devices, orgName, nowT, j) ==
  IF j > Len(devices) THEN << >>
  ELSE LET device == devices[j]
           rest   == SelectRows(devices, orgName, nowT, j + 1)
       IN  IF device.sn = << >> \/ device.expiry_date = << >> THEN rest
           ELSE LET serial     == NormalizeSerial(device.sn)
                    expiryDate == ParseDate(device.expiry_date)
                IN  IF DateLte(expiryDate, cutoffDate(nowT))
                    THEN LET daysLeft  == diffInDays(expiryDate.t, nowT)
                             isExpired == IF device.expired THEN <<"Y","E","S">>
                                                            ELSE <<"N","O">>
                         IN  << [line |-> CsvRow(orgName, serial, device.expiry_date,
                                                 daysLeft, isExpired),
                                 dev  |-> j] >> \o rest
                    ELSE rest

RECURSIVE DeviceCount(_)
DeviceCount(rs) ==
  IF rs = << >> THEN 0 ELSE Len(Head(rs).body.data) + DeviceCount(Tail(rs))

\* the try block of step 3 throws: non-2xx, or JSON.parse fails
DeviceFetchFailed(r) == ~Ok(r) \/ ~r.body.parses

\* a failed fetch that leaves the loop
AfterOrgBreak(failed, i, n) == IF failed THEN "send" ELSE LoopPc(i + 1, n)

\* the end of an iteration, by `continue` or by reaching the end of the body
AfterOrg(failed, i, n) == LoopPc(i + 1, n)

FetchDevices ==
  /\ pc = "devices"
  /\ \E r \in DevResponses(catalog, MaxDevices - DeviceCount(fetched)) :
       LET org  == orgs[idx]
           rows == SelectRows(r.body.data, org.name, now, 1)
       IN  /\ calls' = Append(calls, Call("devices", org.id))
           /\ fetched' = Append(fetched, r)
           /\ IF DeviceFetchFailed(r)
              THEN /\ errors' = Append(errors, Err("Error fetching devices for org", org.id))
                   /\ UNCHANGED <<csvLines, rowSrc>>
              ELSE /\ csvLines' = csvLines \o [k \in 1..Len(rows) |-> rows[k].line]
                   /\ rowSrc' = rowSrc \o [k \in 1..Len(rows) |-> <<idx, rows[k].dev>>]
                   /\ UNCHANGED errors
           /\ pc' = AfterOrg(DeviceFetchFailed(r), idx, Len(orgs))
  /\ idx' = idx + 1
  /\ UNCHANGED <<env, catalog, exitCode, tokenResp, orgResp, orgs, now, mail, pureVars>>

(***************************************************************************)
(* main(), step 5: csvLines.join('\n') and sendEmailWithCSV(), after which *)
(* main() returns and the process ends.                                    *)
(***************************************************************************)
\* sendEmailWithCSV without its try/catch: the error of sendMail reaches
\* the catch of main()
SendEmailUncaught ==
  /\ pc = "send"
  /\ IF ~(SmtpKeys \subseteq env)
     THEN /\ mail' = [handed |-> TRUE, csvContent |-> Join(csvLines, LF), outcome |-> "skipped"]
          /\ errors' = Append(errors, Err("Missing SMTP settings in .env. Cannot send email.", 0))
          /\ Exit(0)
          /\ UNCHANGED calls
     ELSE \E sent \in BOOLEAN :
            /\ mail' = [handed |-> TRUE, csvContent |-> Join(csvLines, LF),
                        outcome |-> IF sent THEN "sent" ELSE "threw"]
            /\ calls' = Append(calls, Call("sendMail", 0))
            /\ errors' = IF sent THEN errors
                         ELSE Append(errors, Err("Unexpected error in main:", 0))
            /\ Exit(IF sent THEN 0 ELSE 1)
  /\ UNCHANGED <<env, catalog, tokenResp, orgResp, orgs, idx, now, csvLines, rowSrc, fetched, pureVars>>

SendEmail ==
  /\ pc = "send"
  /\ IF ~(SmtpKeys \subseteq env)
     THEN /\ mail' = [handed |-> TRUE, csvContent |-> Join(csvLines, LF), outcome |-> "skipped"]
          /\ errors' = Append(errors, Err("Missing SMTP settings in .env. Cannot send email.", 0))
          /\ UNCHANGED calls
     ELSE \E sent \in BOOLEAN :
            /\ mail' = [handed |-> TRUE, csvContent |-> Join(csvLines, LF),
                        outcome |-> IF sent THEN "sent" ELSE "threw"]
            /\ calls' = Append(calls, Call("sendMail", 0))
            /\ errors' = IF sent THEN errors
                         ELSE Append(errors, Err("Error sending email:", 0))
  /\ Exit(0)
  /\ UNCHANGED <<env, catalog, tokenResp, orgResp, orgs, idx, now, csvLines, rowSrc, fetched, pureVars>>

Next == GetToken \/ FetchOrgs \/ FetchDevices \/ SendEmail

Spec == Init /\ [][Next]_vars

(***************************************************************************)
(* The serial normalization and diffInDays on their own: a run applies the *)
(* function to one input.                                                  *)
(***************************************************************************)
pipelineVars == <<env, catalog, pc, exitCode, calls, errors, tokenResp, orgResp, orgs,
                  idx, now, csvLines, rowSrc, fetched, mail>>

Idle ==
  /\ env = RequiredKeys
  /\ catalog = {}
  /\ pc = "idle"
  /\ exitCode = 0
  /\ calls = << >>
  /\ errors = << >>
  /\ tokenResp = [status |-> 0, body |-> "garbage"]
  /\ orgResp = NoResponse
  /\ orgs = << >>
  /\ idx = 0
  /\ now = 0
  /\ csvLines = << >>
  /\ rowSrc = << >>
  /\ fetched = << >>
  /\ mail = [handed |-> FALSE, csvContent |-> << >>, outcome |-> "none"]

SerialAlphabet == {"A", "z", "7", "-", " ", "_"}

InitSerial ==
  /\ Idle
  /\ fn = "none"
  /\ input \in SeqsUpTo(SerialAlphabet, MaxSerialLen)
  /\ output = << >>

\* const serial = device.sn.replace(/[^a-zA-Z0-9]/g, '')
Normalize ==
  /\ pc = "idle" /\ fn = "none"
  /\ fn' = "normalize"
  /\ output' = NormalizeSerial(input)
  /\ UNCHANGED <<input, pipelineVars>>

\* the same replace, applied to the serial it produced
NormalizeAgain ==
  /\ pc = "idle" /\ fn = "normalize"
  /\ fn' = "normalizeAgain"
  /\ output' = NormalizeSerial(output)
  /\ UNCHANGED <<input, pipelineVars>>

NextSerial == Normalize \/ NormalizeAgain

SpecSerial == InitSerial /\ [][NextSerial]_vars

\* expiry and now, whole days apart give or take one tick
DayInputs ==
  { [expiry |-> n + d * TicksInDay + e, now |-> n]
    : n \in NowSet, d \in (-MaxDayOffset)..MaxDayOffset, e \in {-1, 0, 1} }

InitDays ==
  /\ Idle
  /\ fn = "none"
  /\ input \in DayInputs
  /\ output = [daysLeft |-> 0, text |-> << >>]

\* const daysLeft = diffInDays(expiryDate, now), and its text in the row
DaysUntilExpiry ==
  /\ pc = "idle" /\ fn = "none"
  /\ fn' = "diffInDays"
  /\ LET daysLeft == diffInDays(input.expiry, input.now)
     IN  output' = [daysLeft |-> daysLeft, text |-> IntToStr(daysLeft)]
  /\ UNCHANGED <<input, pipelineVars>>

NextDays == DaysUntilExpiry

SpecDays == InitDays /\ [][NextDays]_vars

(***************************************************************************)
(* Properties.                                                             *)
(***************************************************************************)
Range(f) == {f[k] : k \in DOMAIN f}

\* the request was answered 2xx with a JSON body
Succeeded(r) == r.status \in 200..299 /\ r.body.parses
\* the request was answered outside 2xx
Non2xx(r) == r.status # 0 /\ r.status \notin 200..299

\* the device has a serial and an expiry date that parses to an instant no
\* later than now + 90 days
Qualifies(d) ==
  /\ d.sn # << >>
  /\ d.expiry_date # << >>
  /\ ParseDate(d.expiry_date).valid
  /\ ParseDate(d.expiry_date).t <= now + 90 * TicksInDay

\* the rows pushed for device j of the organization at position i
RowCount(i, j) == Cardinality({k \in DOMAIN rowSrc : rowSrc[k] = <<i, j>>})

\* the devices that qualify among those of the organizations fetched with success
Selected ==
  { <<i, j>> \in (DOMAIN fetched) \X (1..MaxDevices + 1) :
      /\ Succeeded(fetched[i])
      /\ j \in DOMAIN fetched[i].body.data
      /\ Qualifies(fetched[i].body.data[j]) }

DeviceCalls == SelectSeq(calls, LAMBDA c : c.op = "devices")

\* C1: for every organization fetched with success and every device returned,
\* the device has exactly one row if it has a serial, an expiry date that
\* parses and expiry <= now + 90 days (whatever its expired flag), and no row
\* otherwise; every row is one entry of csvLines after the header.
C1_RowIffQualifies ==
  /\ \A i \in DOMAIN fetched :
       Succeeded(fetched[i]) =>
         \A j \in DOMAIN fetched[i].body.data :
           RowCount(i, j) = IF Qualifies(fetched[i].body.data[j]) THEN 1 ELSE 0
  /\ fetched # << >> => Len(csvLines) = 1 + Len(rowSrc)

\* C1, reached: a response with a device expiring exactly at the cutoff and
\* flagged expired, which has its row, next to a device that has none
C1_Witness ==
  \E i \in DOMAIN fetched :
    /\ Succeeded(fetched[i])
    /\ Len(fetched[i].body.data) = 2
    /\ LET d1 == fetched[i].body.data[1]
           d2 == fetched[i].body.data[2]
       IN  /\ Qualifies(d1) /\ d1.expired
           /\ ParseDate(d1.expiry_date).t = now + 90 * TicksInDay
           /\ RowCount(i, 1) = 1
           /\ ~Qualifies(d2) /\ d2.sn # << >> /\ RowCount(i, 2) = 0

\* C2: when the device fetch of an organization is answered non-2xx, the
\* failure is logged, the organization has no row, the loop goes on to every
\* remaining organization, the rows are exactly those of the qualifying
\* devices of the organizations that succeeded, and the run exits with 0.
C2_FailedOrgIsolated ==
  \A i \in DOMAIN fetched :
    Non2xx(fetched[i]) =>
      /\ \A k \in DOMAIN rowSrc : rowSrc[k][1] # i
      /\ Err("Error fetching devices for org", orgs[i].id) \in Range(errors)
      /\ IF pc = "devices"
         THEN idx = Len(fetched) + 1 /\ idx <= Len(orgs)
         ELSE /\ Len(fetched) = Len(orgs)
              /\ DeviceCalls = [k \in 1..Len(orgs) |-> Call("devices", orgs[k].id)]
              /\ Range(rowSrc) = Selected
              /\ Len(rowSrc) = Cardinality(Selected)
              /\ Len(csvLines) = 1 + Cardinality(Selected)
      /\ pc = "exit" => exitCode = 0 /\ mail.handed

\* C2, reached: organization 1 fails, organization 2 returns one qualifying device
C2_Witness ==
  /\ pc = "exit" /\ exitCode = 0
  /\ Len(orgs) = 2 /\ Len(fetched) = 2
  /\ Non2xx(fetched[1]) /\ Succeeded(fetched[2])
  /\ rowSrc = << <<2, 1>> >>
  /\ Len(csvLines) = 2

TokenFailed ==
  /\ tokenResp.status # 0
  /\ ~(tokenResp.status \in 200..299 /\ tokenResp.body = "token")

\* C3: when the token exchange fails (non-2xx, a body that does not parse, or
\* a body without access_token), the process exits with a non-zero code and
\* the token request is the only call of the run: no organization fetch, no
\* device fetch, no email.
C3_TokenFailureAborts ==
  TokenFailed =>
    /\ pc = "exit" /\ exitCode # 0
    /\ calls = <<Call("token", 0)>>
    /\ ~mail.handed

\* C3, reached: a 2xx token response without access_token, and the exit
C3_Witness ==
  /\ tokenResp.status = 200 /\ tokenResp.body = "noToken"
  /\ pc = "exit" /\ exitCode = 1

\* the organization fetch succeeded with a missing or an empty list
ZeroOrgs == Succeeded(orgResp) /\ (~orgResp.body.hasData \/ orgResp.body.data = << >>)

\* C4, as claimed: when the organization fetch returns zero organizations,
\* the run ends having handed a header-only report to the dispatcher.
C4_EmptyOrgsStillReported ==
  (ZeroOrgs /\ pc = "exit") => mail.handed /\ mail.csvContent = Header

\* C4, amended: when the organization fetch returns zero organizations, the
\* run ends at once with exit code 0: no report is built, nothing is handed
\* to the dispatcher, no error is logged and no further call is made.
C4_EmptyOrgsNoReport ==
  ZeroOrgs =>
    /\ pc = "exit" /\ exitCode = 0
    /\ ~mail.handed /\ csvLines = << >>
    /\ errors = << >>
    /\ calls = <<Call("token", 0), Call("orgs", 0)>>

\* C4, reached: a 2xx organization response with an empty list, and the exit
C4_Witness ==
  /\ Succeeded(orgResp) /\ orgResp.body.hasData /\ orgResp.body.data = << >>
  /\ pc = "exit"

C6_OrgFailureAborts ==
  Non2xx(orgResp) =>
    /\ pc = "exit" /\ exitCode # 0
    /\ calls = <<Call("token", 0), Call("orgs", 0)>>
    /\ ~mail.handed

\* C6, reached: a 500 organization response with a JSON body, and the exit
C6_Witness ==
  /\ orgResp.status = 500 /\ orgResp.body.parses
  /\ pc = "exit" /\ exitCode = 1

\* C7: when sendMail throws, the failure is logged and the process exits
\* with code 0, after a run whose token, organization and device requests
\* were made.
C7_SendFailureNotFatal ==
  mail.outcome = "threw" =>
    /\ pc = "exit" /\ exitCode = 0
    /\ errors[Len(errors)] = Err("Error sending email:", 0)
    /\ calls[Len(calls)] = Call("sendMail", 0)
    /\ Len(DeviceCalls) = Len(orgs)

\* C7, reached: sendMail threw on a report with rows, and the process ended
C7_Witness ==
  /\ mail.outcome = "threw" /\ pc = "exit"
  /\ Len(rowSrc) > 0

\* the lines of a text: its pieces between line feeds
SplitLines(t) ==
  LET feeds  == {k \in DOMAIN t : t[k] = LF}
      n      == Cardinality(feeds)
      \* the position of the m-th line feed
      At(m)  == CHOOSE k \in feeds : Cardinality({q \in feeds : q < k}) = m - 1
      From(m) == IF m = 1 THEN 1 ELSE At(m - 1) + 1
      To(m)   == IF m = n + 1 THEN Len(t) ELSE At(m) - 1
  IN  [m \in 1..(n + 1) |-> SubSeq(t, From(m), To(m))]

LineFeeds(t) == Cardinality({k \in DOMAIN t : t[k] = LF})

RECURSIVE LineFeedsIn(_)
LineFeedsIn(lines) ==
  IF lines = << >> THEN 0 ELSE LineFeeds(Head(lines)) + LineFeedsIn(Tail(lines))

\* the row of the device at position p[2] of the organization at position p[1]
RowOf(p) ==
  LET d == fetched[p[1]].body.data[p[2]]
      t == ParseDate(d.expiry_date).t
  IN  CsvRow(orgs[p[1]].name, SelectSeq(d.sn, IsAlnum), d.expiry_date,
             CeilDiv(t - now, TicksInDay),
             IF d.expired THEN <<"Y","E","S">> ELSE <<"N","O">>)

\* encounter order: by organization, then by device
Before(p, q) == p[1] < q[1] \/ (p[1] = q[1] /\ p[2] < q[2])

\* C9, as claimed: the text handed to the dispatcher has exactly rows + 1
\* lines.
C9_LinesAreRowsPlusOne ==
  mail.handed => Len(SplitLines(mail.csvContent)) = Len(rowSrc) + 1

\* C9, amended: the text handed to the dispatcher is rows + 1 entries joined
\* by line feeds: the fixed header first, then one entry per selected device
\* in encounter order (no entry of a later organization before one of an
\* earlier one); it has exactly rows + 1 lines when no organization name and
\* no expiry literal holds a line feed, and one more line for each line feed
\* they hold.
C9_CsvText ==
  mail.handed =>
    /\ Len(csvLines) = Len(rowSrc) + 1
    /\ csvLines[1] = Header
    /\ Range(rowSrc) = Selected
    /\ \A k \in DOMAIN rowSrc : csvLines[k + 1] = RowOf(rowSrc[k])
    /\ \A k1, k2 \in DOMAIN rowSrc : k1 < k2 => Before(rowSrc[k1], rowSrc[k2])
    /\ Len(SplitLines(mail.csvContent)) = Len(rowSrc) + 1 + LineFeedsIn(csvLines)
    /\ LineFeedsIn(csvLines) = 0 => SplitLines(mail.csvContent) = csvLines

\* C9, reached: rows of two organizations, none with a line feed
C9_Witness ==
  /\ mail.handed
  /\ Len(rowSrc) = 2 /\ rowSrc[1][1] = 1 /\ rowSrc[2][1] = 2
  /\ LineFeedsIn(csvLines) = 0
  /\ Len(SplitLines(mail.csvContent)) = 3

Diff == input.expiry - input.now

\* C8, as claimed: daysLeft is the ceiling of (expiry - now) / 1 day, 0 for
\* expiry = now, -10 for expiry 10 days before now, and its sign is the sign
\* of expiry - now.
C8_SignMatches ==
  fn = "diffInDays" =>
    /\ output.daysLeft * TicksInDay >= Diff
    /\ (output.daysLeft - 1) * TicksInDay < Diff
    /\ Diff = 0 => output.daysLeft = 0
    /\ Diff = -10 * TicksInDay => output.daysLeft = -10
    /\ output.daysLeft < 0 <=> Diff < 0
    /\ output.daysLeft = 0 <=> Diff = 0
    /\ output.daysLeft > 0 <=> Diff > 0

\* C8, amended: daysLeft is the ceiling of (expiry - now) / 1 day, 0 for
\* expiry = now, -10 for expiry 10 days before now; it is positive iff
\* expiry is after now, negative iff expiry is a whole day or more before
\* now, and 0 (printed as 0) for an expiry less than a day before now.
C8_CeilOfDays ==
  fn = "diffInDays" =>
    /\ output.daysLeft * TicksInDay >= Diff
    /\ (output.daysLeft - 1) * TicksInDay < Diff
    /\ Diff = 0 => output.daysLeft = 0
    /\ Diff = -10 * TicksInDay => output.daysLeft = -10
    /\ output.daysLeft > 0 <=> Diff > 0
    /\ output.daysLeft < 0 <=> Diff <= -TicksInDay
    /\ output.daysLeft = 0 <=> (-TicksInDay < Diff /\ Diff <= 0)
    /\ output.daysLeft = 0 => output.text = <<"0">>

\* C8, reached: an expiry exactly 10 days before now
C8_Witness ==
  /\ fn = "diffInDays"
  /\ Diff = -10 * TicksInDay
  /\ output.daysLeft = -10 /\ output.text = <<"-", "1", "0">>

\* C10: normalization removes exactly the characters outside [A-Za-z0-9],
\* keeping the letters and digits in their order, and normalizing its result
\* again leaves it unchanged.
C10_NormalizeSerial ==
  fn \in {"normalize", "normalizeAgain"} =>
    /\ \A k \in DOMAIN output : output[k] \in Upper \cup Lower \cup Digit
    /\ output = SelectSeq(input, LAMBDA c : c \in Upper \cup Lower \cup Digit)
    /\ Len(input) - Len(output)
         = Cardinality({k \in DOMAIN input : input[k] \notin Upper \cup Lower \cup Digit})

\* C10, reached: a serial with a hyphen and a space, normalized twice
C10_Witness ==
  /\ fn = "normalizeAgain"
  /\ input = <<"A", "-", " ">>
  /\ output = <<"A">>

=============================================================================
